---- MODULE Spec2Model ----
(***************************************************************************)
(* Bulk rename of yazi-core (manager/commands/bulk_rename.rs):             *)
(* Manager::sort, the dependency scheduler, Manager::bulk_rename_do, the   *)
(* confirmation gate, the rename pass under the WATCHER permit and the     *)
(* failure report, and the task Manager::bulk_rename spawns around them:   *)
(* the handoff file, the editor and the HIDER permit.                      *)
(*                                                                         *)
(* A path is a natural number; the root is fixed, so root.join(p) is p.    *)
(* A pair of the batch is the tuple <<o, n>>.  Paths are compared only for *)
(* equality and hashed, and ties are broken by the position in `old`, so   *)
(* the old paths of a batch of k files are named 1..k in user order; the   *)
(* new paths range over every path of the universe.                        *)
(***************************************************************************)
EXTENDS Naturals, Sequences, FiniteSets

VARIABLES
    old,          \* bulk_rename_do / sort argument: the old paths, user order
    new,          \* bulk_rename_do / sort argument: the names read back
    pc,           \* position of the task in bulk_rename_do / sort
    income_map,   \* sort: HashMap old path -> has_income
    todos,        \* sort: HashMap old path -> new path, the pending pairs
    sorted,       \* sort: the provisional list
    todo,         \* the list sort returned
    buf0,         \* buf[0], first byte of the answer to the prompt
    watcher,      \* permits available in the WATCHER semaphore
    permit,       \* TRUE while the task holds its WATCHER permit
    idx,          \* position of the `for (o, n) in todo` loop
    failed,       \* Vec of <<o, n, reason>>
    succeeded,    \* HashMap old path -> File of the new path
    fs,           \* the filesystem: path -> file, or NoFile
    published,    \* what Pubsub::pub_from_bulk / FilesOp::rename were given
    shown,        \* what output_failed wrote to the terminal
    result,       \* what bulk_rename_do returned
    fs0,          \* history: the filesystem when bulk_rename_do was entered
    issued,       \* history: the fs::rename calls, in order
    attempts,     \* history: the pairs the rename pass has processed, in order
    sort_called,  \* history: Manager::sort was called
    acquired,     \* history: number of WATCHER.acquire() that completed
    hider,        \* permits available in the HIDER semaphore
    hpermit,      \* TRUE while the task holds `_permit`, its HIDER permit
    tmp,          \* the handoff file PREVIEW.tmpfile("bulk"): absent / present
    cleanup,      \* the guard of `defer! { tokio::spawn(fs::remove_file(..)) }`
    peer          \* a second task spawned by another bulk_rename call

vars == <<old, new, pc, income_map, todos, sorted, todo, buf0, watcher, permit,
          idx, failed, succeeded, fs, published, shown, result, fs0, issued,
          attempts, sort_called, acquired, hider, hpermit, tmp, cleanup, peer>>

sortVars == <<income_map, todos, sorted>>
passVars == <<idx, failed, succeeded, fs, issued, attempts>>
wrapVars == <<hider, hpermit, tmp, cleanup, peer>>

(***************************************************************************)
(* Bounds.                                                                 *)
(***************************************************************************)
\* longest list handed to Manager::sort on its own
MaxLen == 4
\* largest batch handed to bulk_rename_do
MaxBatch == 3

\* path universes: the old paths and one path that is no old path
SortPaths == 1..(MaxLen + 1)
BatchPaths == 1..(MaxBatch + 1)

NoFile == 0

\* the permits of the process-wide HIDER semaphore
HiderPermits == 1

\* no second bulk_rename call was made
NoPeer == [pc |-> "none", hider |-> FALSE, watcher |-> FALSE]

(***************************************************************************)
(* Sequences and maps.                                                     *)
(***************************************************************************)
Range(s) == {s[i] : i \in 1..Len(s)}

Min(a, b) == IF a < b THEN a ELSE b

\* mutant of Reverse: sorted.reverse() is left out
NotReversed(s) == s

\* Vec::reverse
Reverse(s) == [i \in 1..Len(s) |-> s[Len(s) + 1 - i]]

\* HashMap::remove of a key (no effect when the key is absent)
RemoveKey(m, k) == [p \in (DOMAIN m) \ {k} |-> m[p]]

EmptyMap == [p \in {} |-> 0]

\* the orders in which a hash map may hand out the keys S
RECURSIVE IterOrders(_)
IterOrders(S) ==
    IF S = {} THEN {<<>>}
    ELSE UNION {{<<x>> \o t : t \in IterOrders(S \ {x})} : x \in S}

\* one fixed iteration order: ascending paths
RECURSIVE Ascending(_)
Ascending(S) ==
    IF S = {} THEN <<>>
    ELSE LET m == CHOOSE x \in S : \A y \in S : x <= y
         IN <<m>> \o Ascending(S \ {m})

\* stable insertion of x into the key-ordered s: after every element whose
\* key is not greater
RECURSIVE InsertByKey(_, _, _)
InsertByKey(s, x, key) ==
    IF s = <<>> THEN <<x>>
    ELSE IF key[x] < key[Head(s)] THEN <<x>> \o s
    ELSE <<Head(s)>> \o InsertByKey(Tail(s), x, key)

RECURSIVE StableSort(_, _)
StableSort(s, key) ==
    IF s = <<>> THEN <<>>
    ELSE InsertByKey(StableSort(SubSeq(s, 1, Len(s) - 1), key), s[Len(s)], key)

\* mutant of SortByKey: the list is left in the order it was collected in
SortByKeyOmitted(s, key) == s

\* slice::sort_by on the keys of `key`, ascending
SortByKey(s, key) == StableSort(s, key)

\* the lists of length k over S
Lists(S, k) == [1..k -> S]

\* the old paths of a batch of k files
OldPaths(k) == [i \in 1..k |-> i]

(***************************************************************************)
(* Manager::sort                                                           *)
(***************************************************************************)
\* user_order: old path -> index in the input (0-based)
UserOrder(o) == [p \in Range(o) |-> (CHOOSE i \in 1..Len(o) : o[i] = p) - 1]

\* mutant of RevUserOrder: the comparison is user_order[a].cmp(user_order[b])
RevUserOrderAscending(o) == UserOrder(o)

\* the key that reverses the order of user_order (user_order[b].cmp(user_order[a]))
RevUserOrder(o) == [p \in Range(o) |-> Len(o) - UserOrder(o)[p]]

\* income_map after construction: false for every old path, then true for
\* every old path that some zipped pair has as its new path
InitIncomeMap(o, n) ==
    [p \in Range(o) |-> \E i \in 1..Min(Len(o), Len(n)) : n[i] = p]

\* todos after construction: old.iter().zip(new) collected into a map
InitTodos(o, n) ==
    LET k == Min(Len(o), Len(n))
    IN [p \in {o[i] : i \in 1..k} |->
            n[CHOOSE i \in 1..k : o[i] = p /\ \A j \in (i + 1)..k : o[j] # p]]

\* has_no_incomes as pushed by income_map.iter() visiting the keys in `iter`
HasNoIncomes(im, iter) == SelectSeq(iter, LAMBDA p : ~im[p])

\* mutant of ForEachNoIncome: the pair is looked up in todos (get), not
\* removed from it
RECURSIVE ForEachKeepsTodos(_, _)
ForEachKeepsTodos(st, hs) ==
    IF hs = <<>> \/ st.unreachable THEN st
    ELSE LET o == Head(hs)
             im1 == RemoveKey(st.income_map, o)
         IN IF o \notin DOMAIN st.todos
            THEN [st EXCEPT !.income_map = im1, !.unreachable = TRUE]
            ELSE LET n == st.todos[o]
                     im2 == IF n \in DOMAIN im1 THEN [im1 EXCEPT ![n] = FALSE] ELSE im1
                 IN ForEachKeepsTodos(
                        [income_map |-> im2,
                         todos |-> st.todos,
                         sorted |-> Append(st.sorted, <<o, n>>),
                         unreachable |-> FALSE],
                        Tail(hs))

\* the `for old in has_no_incomes` loop; st.unreachable is set when
\* todos.remove(&old) finds nothing
RECURSIVE ForEachNoIncome(_, _)
ForEachNoIncome(st, hs) ==
    IF hs = <<>> \/ st.unreachable THEN st
    ELSE LET o == Head(hs)
             im1 == RemoveKey(st.income_map, o)
         IN IF o \notin DOMAIN st.todos
            THEN [st EXCEPT !.income_map = im1, !.unreachable = TRUE]
            ELSE LET n == st.todos[o]
                     im2 == IF n \in DOMAIN im1 THEN [im1 EXCEPT ![n] = FALSE] ELSE im1
                 IN ForEachNoIncome(
                        [income_map |-> im2,
                         todos |-> RemoveKey(st.todos, o),
                         sorted |-> Append(st.sorted, <<o, n>>),
                         unreachable |-> FALSE],
                        Tail(hs))

\* one iteration of the while loop that finds a pair without income
Round(o, im, td, so, iter) ==
    ForEachNoIncome(
        [income_map |-> im, todos |-> td, sorted |-> so, unreachable |-> FALSE],
        SortByKey(HasNoIncomes(im, iter), RevUserOrder(o)))

\* mutant of Fallback: the pairs placed before the cycle was met are dropped
FallbackRemainOnly(o, td, so, drain) ==
    LET remain == SortByKey(drain, UserOrder(o))
    IN [i \in 1..Len(remain) |-> <<remain[i], td[remain[i]]>>]

\* the cycle fallback: todos.drain() hands out the pairs in the order `drain`
Fallback(o, td, so, drain) ==
    LET remain == SortByKey(drain, UserOrder(o))
    IN Reverse(so) \o [i \in 1..Len(remain) |-> <<remain[i], td[remain[i]]>>]

\* the whole of sort with every hash map iterated in ascending order
RECURSIVE SortFrom(_, _, _, _)
SortFrom(o, im, td, so) ==
    IF DOMAIN td = {} THEN Reverse(so)
    ELSE IF \A p \in DOMAIN im : im[p]
         THEN Fallback(o, td, so, Ascending(DOMAIN td))
         ELSE LET st == Round(o, im, td, so, Ascending(DOMAIN im))
              IN IF st.unreachable THEN <<>>
                 ELSE SortFrom(o, st.income_map, st.todos, st.sorted)

SortAscending(o, n) == SortFrom(o, InitIncomeMap(o, n), InitTodos(o, n), <<>>)

(***************************************************************************)
(* Actions of Manager::sort.                                               *)
(***************************************************************************)
othersUnchanged ==
    UNCHANGED <<old, new, buf0, watcher, permit, idx, failed, succeeded, fs,
                published, shown, result, fs0, wrapVars, issued, attempts, sort_called,
                acquired>>

\* an iteration that finds has_no_incomes non-empty
SortRound ==
    /\ pc = "sort_loop"
    /\ DOMAIN todos # {}
    /\ \E p \in DOMAIN income_map : ~income_map[p]
    /\ \E iter \in IterOrders(DOMAIN income_map) :
         LET st == Round(old, income_map, todos, sorted, iter)
         IN /\ income_map' = st.income_map
            /\ todos' = st.todos
            /\ sorted' = st.sorted
            /\ pc' = IF st.unreachable THEN "panic" ELSE "sort_loop"
    /\ UNCHANGED todo
    /\ othersUnchanged

\* an iteration that finds has_no_incomes empty: the remaining set has a cycle
SortFallback ==
    /\ pc = "sort_loop"
    /\ DOMAIN todos # {}
    /\ \A p \in DOMAIN income_map : income_map[p]
    /\ \E drain \in IterOrders(DOMAIN todos) :
         /\ sorted' = Fallback(old, todos, sorted, drain)
         /\ todo' = sorted'
    /\ todos' = EmptyMap
    /\ pc' = "sort_returned"
    /\ UNCHANGED income_map
    /\ othersUnchanged

\* todos is empty: reverse and return
SortReturn ==
    /\ pc = "sort_loop"
    /\ DOMAIN todos = {}
    /\ sorted' = Reverse(sorted)
    /\ todo' = sorted'
    /\ pc' = "sort_returned"
    /\ UNCHANGED <<income_map, todos>>
    /\ othersUnchanged

(***************************************************************************)
(* The filesystem and the calls of the rename pass.                        *)
(***************************************************************************)
\* maybe_exists: something is at the path
MaybeExists(f, p) == f[p] # NoFile

\* paths_to_same_file: both paths exist and name the same underlying file
PathsToSameFile(f, a, b) == f[a] # NoFile /\ f[b] # NoFile /\ f[a] = f[b]

\* mutant of Collision: the negation of the same-file test is lost
CollisionNegationLost(f, o, n) == MaybeExists(f, n) /\ PathsToSameFile(f, o, n)

\* mutant of Collision: the same-file test is left out
CollisionByExistence(f, o, n) == MaybeExists(f, n)

\* mutant of Collision: the test is left out
CollisionUnchecked(f, o, n) == FALSE

\* the test that records "Destination already exists" instead of renaming
Collision(f, o, n) == MaybeExists(f, n) /\ ~PathsToSameFile(f, o, n)

\* fs::rename returns Ok: the source exists and no I/O error occurs
RenameSucceeds(f, o, io_ok) == f[o] # NoFile /\ io_ok

\* the filesystem after a successful fs::rename(o, n): nothing changes when
\* both names are the same file, otherwise n is replaced and o disappears
Rename(f, o, n) ==
    IF f[o] = f[n] THEN f ELSE [f EXCEPT ![n] = f[o], ![o] = NoFile]

\* File::from(new) returns Ok: the path exists and its metadata can be read
FileFrom(f, n, io_ok) == f[n] # NoFile /\ io_ok

\* mutant of RecordFailed: the list is assigned, not pushed to
RecordFailedAssigns(fl, o, n, reason) == <<<<o, n, reason>>>>

\* mutant of RecordFailed: the entry is put at the front of the list
RecordFailedPrepends(fl, o, n, reason) == <<<<o, n, reason>>>> \o fl

\* failed.push((o, n, reason))
RecordFailed(fl, o, n, reason) == Append(fl, <<o, n, reason>>)

\* mutant of RecordSucceeded: the map is replaced by the one new entry
RecordSucceededOverwrites(sc, o, file) == [p \in {o} |-> file]

\* succeeded.insert(Url::from(old), f)
RecordSucceeded(sc, o, file) ==
    [p \in (DOMAIN sc) \cup {o} |-> IF p = o THEN file ELSE sc[p]]

\* the files present on the filesystem
Files(f) == {f[p] : p \in DOMAIN f} \ {NoFile}

(***************************************************************************)
(* Manager::bulk_rename_do                                                 *)
(***************************************************************************)
ByteLowerY == 121
ByteUpperY == 89

\* what stdin().read(&mut buf) may leave in buf[0]: nothing read, "\n", "N",
\* "n", "Y", "y"
Bytes == {0, 10, 78, 110, ByteUpperY, ByteLowerY}

\* mutant of LenMismatch: only too few names are refused
LenMismatchTooFew(o, n) == Len(o) > Len(n)

\* old.len() != new.len()
LenMismatch(o, n) == Len(o) # Len(n)

\* mutant of Declined: only an explicit "n" or "N" declines
DeclinedExplicitly(b) == b = 110 \/ b = 78

\* buf[0] != b'y' && buf[0] != b'Y'
Declined(b) == b # ByteLowerY /\ b # ByteUpperY

\* terminal_clear, the count check and the call of sort
Enter ==
    /\ pc = "start"
    /\ \E clear_ok \in BOOLEAN :
         IF ~clear_ok
         THEN /\ pc' = "done"
              /\ result' = "Err"
              /\ UNCHANGED <<sortVars, sort_called>>
         ELSE IF LenMismatch(old, new)
         THEN /\ pc' = "mismatch"
              /\ UNCHANGED <<result, sortVars, sort_called>>
         ELSE /\ pc' = "sort_loop"
              /\ income_map' = InitIncomeMap(old, new)
              /\ todos' = InitTodos(old, new)
              /\ sorted' = <<>>
              /\ sort_called' = TRUE
              /\ UNCHANGED result
    /\ UNCHANGED <<old, new, todo, buf0, watcher, permit, published, shown,
                   fs0, wrapVars, acquired, passVars>>

\* "Number of old and new differ, press ENTER to exit"
MismatchExit ==
    /\ pc = "mismatch"
    /\ \E read_ok \in BOOLEAN : result' = IF read_ok THEN "Ok" ELSE "Err"
    /\ pc' = "done"
    /\ UNCHANGED <<old, new, todo, buf0, watcher, permit, published, shown,
                   fs0, wrapVars, acquired, sort_called, sortVars, passVars>>

\* todo.is_empty(), then the list of pairs and "Continue to rename? (y/N): "
Prompt ==
    /\ pc = "sort_returned"
    /\ IF todo = <<>>
       THEN /\ pc' = "done"
            /\ result' = "Ok"
       ELSE \E write_ok \in BOOLEAN :
              /\ pc' = IF write_ok THEN "confirm" ELSE "done"
              /\ result' = IF write_ok THEN result ELSE "Err"
    /\ UNCHANGED <<old, new, todo, buf0, watcher, permit, published, shown,
                   fs0, wrapVars, acquired, sort_called, sortVars, passVars>>

\* stdin().read(&mut buf) and the test of buf[0]
Confirm ==
    /\ pc = "confirm"
    /\ \/ /\ pc' = "done"
          /\ result' = "Err"
          /\ UNCHANGED buf0
       \/ \E b \in Bytes :
            /\ buf0' = b
            /\ pc' = IF Declined(b) THEN "done" ELSE "acquire"
            /\ result' = IF Declined(b) THEN "Ok" ELSE result
    /\ UNCHANGED <<old, new, todo, watcher, permit, published, shown,
                   fs0, wrapVars, acquired, sort_called, sortVars, passVars>>

\* WATCHER.acquire().await and the empty failed / succeeded
Acquire ==
    /\ pc = "acquire"
    /\ watcher > 0
    /\ watcher' = watcher - 1
    /\ permit' = TRUE
    /\ acquired' = acquired + 1
    /\ failed' = <<>>
    /\ succeeded' = EmptyMap
    /\ idx' = 1
    /\ pc' = "rename"
    /\ UNCHANGED <<old, new, todo, buf0, published, shown, result, fs0, wrapVars,
                   sort_called, sortVars, fs, issued, attempts>>

\* one iteration of `for (o, n) in todo`
RenamePair ==
    /\ pc = "rename"
    /\ idx <= Len(todo)
    /\ LET o == todo[idx][1]
           n == todo[idx][2]
           call(ok) == [old |-> o, new |-> n, src |-> fs[o], dst |-> fs[n],
                        held |-> permit, ok |-> ok]
       IN \E rename_ok \in BOOLEAN, info_ok \in BOOLEAN :
            IF Collision(fs, o, n)
            THEN /\ failed' = RecordFailed(failed, o, n, "Destination already exists")
                 /\ UNCHANGED <<fs, issued, succeeded>>
            ELSE IF ~RenameSucceeds(fs, o, rename_ok)
            THEN /\ failed' = RecordFailed(failed, o, n, "io error")
                 /\ issued' = Append(issued, call(FALSE))
                 /\ UNCHANGED <<fs, succeeded>>
            ELSE /\ fs' = Rename(fs, o, n)
                 /\ issued' = Append(issued, call(TRUE))
                 /\ IF FileFrom(fs', n, info_ok)
                    THEN /\ succeeded' = RecordSucceeded(succeeded, o,
                                             [url |-> n, file |-> fs'[n]])
                         /\ UNCHANGED failed
                    ELSE /\ failed' = RecordFailed(failed, o, n,
                                             "Failed to retrieve file info")
                         /\ UNCHANGED succeeded
    /\ attempts' = Append(attempts, todo[idx])
    /\ idx' = idx + 1
    /\ UNCHANGED <<old, new, pc, todo, buf0, watcher, permit, published, shown,
                   result, fs0, wrapVars, acquired, sort_called, sortVars>>

\* mutant of Notification: the pair is built as (new, old)
NotificationSwapped(sc, iter) ==
    [k \in 1..Len(iter) |-> <<sc[iter[k]].url, iter[k]>>]

\* succeeded.iter().map(|(o, n)| (o, &n.url)): the pairs (old, new url) in
\* the order in which the hash map yields its entries
Notification(sc, iter) ==
    [k \in 1..Len(iter) |-> <<iter[k], sc[iter[k]].url>>]

\* mutant of Finish: the permit is kept until bulk_rename_do returns
FinishKeepsPermit ==
    /\ pc = "rename"
    /\ idx > Len(todo)
    /\ \E iter \in IterOrders(DOMAIN succeeded) :
         published' = IF DOMAIN succeeded # {}
                      THEN Append(published, Notification(succeeded, iter))
                      ELSE published
    /\ permit' = (failed # <<>>)
    /\ watcher' = IF failed # <<>> THEN watcher ELSE watcher + 1
    /\ pc' = IF failed # <<>> THEN "report" ELSE "done"
    /\ result' = IF failed # <<>> THEN result ELSE "Ok"
    /\ UNCHANGED <<old, new, todo, buf0, shown, fs0, wrapVars, acquired,
                   sort_called, sortVars, passVars>>

\* after the loop: the notification, the index update and drop(permit)
Finish ==
    /\ pc = "rename"
    /\ idx > Len(todo)
    /\ \E iter \in IterOrders(DOMAIN succeeded) :
         published' = IF DOMAIN succeeded # {}
                      THEN Append(published, Notification(succeeded, iter))
                      ELSE published
    /\ permit' = FALSE
    /\ watcher' = watcher + 1
    /\ pc' = IF failed # <<>> THEN "report" ELSE "done"
    /\ result' = IF failed # <<>> THEN result ELSE "Ok"
    /\ UNCHANGED <<old, new, todo, buf0, shown, fs0, wrapVars, acquired,
                   sort_called, sortVars, passVars>>

\* output_failed: clear the terminal, write the list, wait for ENTER
OutputFailed ==
    /\ pc = "report"
    /\ \E io \in {"ok", "clear_err", "write_err", "read_err"} :
         /\ shown' = IF io \in {"ok", "read_err"} THEN Append(shown, failed)
                     ELSE shown
         /\ result' = IF io = "ok" THEN "Ok" ELSE "Err"
    /\ pc' = "done"
    /\ UNCHANGED <<old, new, todo, buf0, watcher, permit, published, fs0, wrapVars,
                   acquired, sort_called, sortVars, passVars>>

\* the filesystems a batch may start from: every old path is a file of its
\* own; the remaining path is absent, a file of its own, or another name
\* (a link) of the file at the first old path
InitialFs(o) ==
    {f \in [BatchPaths -> {NoFile} \cup BatchPaths] :
        \A p \in BatchPaths :
            IF p \in Range(o) THEN f[p] = p
            ELSE f[p] \in {NoFile, p} \cup (IF o = <<>> THEN {} ELSE {o[1]})}

Init ==
    /\ \E k \in 0..MaxBatch, m \in 0..MaxBatch :
         /\ old = OldPaths(k)
         /\ new \in Lists(BatchPaths, m)
    /\ pc = "start"
    /\ income_map = EmptyMap
    /\ todos = EmptyMap
    /\ sorted = <<>>
    /\ todo = <<>>
    /\ buf0 = 0
    /\ watcher = 1
    /\ permit = FALSE
    /\ idx = 0
    /\ failed = <<>>
    /\ succeeded = EmptyMap
    /\ fs \in InitialFs(old)
    /\ published = <<>>
    /\ shown = <<>>
    /\ result = "none"
    /\ fs0 = fs
    /\ issued = <<>>
    /\ attempts = <<>>
    /\ sort_called = FALSE
    /\ acquired = 0
    /\ hider = HiderPermits - 1
    /\ hpermit = TRUE
    /\ tmp = "created"
    /\ cleanup = "registered"
    /\ peer = NoPeer

Next ==
    \/ Enter
    \/ MismatchExit
    \/ SortRound
    \/ SortFallback
    \/ SortReturn
    \/ Prompt
    \/ Confirm
    \/ Acquire
    \/ RenamePair
    \/ Finish
    \/ OutputFailed

Spec == Init /\ [][Next]_vars

(***************************************************************************)
(* Manager::sort called on its own, as tests::test_sort calls it.          *)
(***************************************************************************)
InitSort ==
    /\ \E k \in 0..MaxLen :
         /\ old = OldPaths(k)
         /\ new \in Lists(SortPaths, k)
    /\ pc = "sort_loop"
    /\ income_map = InitIncomeMap(old, new)
    /\ todos = InitTodos(old, new)
    /\ sorted = <<>>
    /\ todo = <<>>
    /\ buf0 = 0
    /\ watcher = 1
    /\ permit = FALSE
    /\ idx = 0
    /\ failed = <<>>
    /\ succeeded = EmptyMap
    /\ fs = [p \in SortPaths |-> IF p \in Range(old) THEN p ELSE NoFile]
    /\ published = <<>>
    /\ shown = <<>>
    /\ result = "none"
    /\ fs0 = fs
    /\ issued = <<>>
    /\ attempts = <<>>
    /\ sort_called = TRUE
    /\ acquired = 0
    /\ hider = HiderPermits
    /\ hpermit = FALSE
    /\ tmp = "absent"
    /\ cleanup = "none"
    /\ peer = NoPeer

NextSort == SortRound \/ SortFallback \/ SortReturn

SpecSort == InitSort /\ [][NextSort]_vars

(***************************************************************************)
(* Manager::bulk_rename: the task spawned around bulk_rename_do, and a     *)
(* second task spawned by another call while the first one is running.     *)
(***************************************************************************)
doVars == <<old, todo, buf0, watcher, permit, published, shown, fs0, acquired,
            sort_called, sortVars, passVars>>

\* PREVIEW.tmpfile("bulk"), create_new(true).open(&tmp), write_all and the
\* registration of the removal guard
CreateTmp ==
    /\ pc = "spawned"
    /\ \E io \in {"ok", "open_err", "write_err"} :
         /\ tmp' = IF io = "open_err" THEN tmp ELSE "created"
         /\ cleanup' = IF io = "ok" THEN "registered" ELSE cleanup
         /\ pc' = IF io = "ok" THEN "editor" ELSE "exit"
         /\ result' = IF io = "ok" THEN result ELSE "Err"
    /\ UNCHANGED <<new, hider, hpermit, peer, fs, doVars>>

\* TasksProxy::process_exec(..).await: the editor has run and exited
EditorExit ==
    /\ pc = "editor"
    /\ pc' = "hider"
    /\ UNCHANGED <<new, result, fs, wrapVars, doVars>>

\* mutant of AcquireHider: `let _ = HIDER.acquire()`, the permit is dropped
\* at once
AcquireHiderDropped ==
    /\ pc = "hider"
    /\ hider > 0
    /\ pc' = "read"
    /\ UNCHANGED <<new, result, fs, wrapVars, doVars>>

\* mutant of AcquireHider: the task goes on without waiting for a permit
AcquireHiderSkipped ==
    /\ pc = "hider"
    /\ pc' = "read"
    /\ UNCHANGED <<new, result, fs, wrapVars, doVars>>

\* let _permit = HIDER.acquire().await.unwrap(), then AppProxy::stop()
AcquireHider ==
    /\ pc = "hider"
    /\ hider > 0
    /\ hider' = hider - 1
    /\ hpermit' = TRUE
    /\ pc' = "read"
    /\ UNCHANGED <<new, result, tmp, cleanup, peer, fs, doVars>>

\* fs::read_to_string(&tmp).await?.lines(): the names the editor left
ReadBack ==
    /\ pc = "read"
    /\ \/ /\ pc' = "exit"
          /\ result' = "Err"
          /\ UNCHANGED new
       \/ \E m \in 0..MaxBatch :
            /\ new' \in Lists(BatchPaths, m)
            /\ pc' = "start"
            /\ UNCHANGED result
    /\ UNCHANGED <<fs, wrapVars, doVars>>

\* the end of the task's block: AppProxy::resume(), `_permit` is dropped and
\* the removal guard, when registered, spawns fs::remove_file(tmp)
TaskExit ==
    /\ pc \in {"done", "exit"}
    /\ hpermit' = FALSE
    /\ hider' = IF hpermit THEN hider + 1 ELSE hider
    /\ cleanup' = IF cleanup = "registered" THEN "spawned" ELSE cleanup
    /\ pc' = "finished"
    /\ UNCHANGED <<new, result, tmp, peer, fs, doVars>>

\* the spawned fs::remove_file(tmp), whose result nobody reads
RemoveTmp ==
    /\ cleanup = "spawned"
    /\ cleanup' = "ran"
    /\ \E ok \in BOOLEAN : tmp' = IF ok THEN "removed" ELSE tmp
    /\ UNCHANGED <<new, pc, result, hider, hpermit, peer, fs, doVars>>

\* the second task, by the same code; its batch is of other files, so only
\* its position and its permits are kept
mainUnchanged == <<old, new, pc, result, hpermit, tmp, cleanup, fs, todo, buf0,
                   permit, published, shown, fs0, acquired, sort_called,
                   sortVars, passVars>>

\* lines 37-49 in the second task: the handoff file and the editor
PeerEditor ==
    /\ peer.pc = "spawned"
    /\ \E io_ok \in BOOLEAN :
         peer' = [peer EXCEPT !.pc = IF io_ok THEN "hider" ELSE "exit"]
    /\ UNCHANGED <<mainUnchanged, hider, watcher>>

\* HIDER.acquire().await in the second task
PeerAcquireHider ==
    /\ peer.pc = "hider"
    /\ hider > 0
    /\ hider' = hider - 1
    /\ peer' = [peer EXCEPT !.pc = "read", !.hider = TRUE]
    /\ UNCHANGED <<mainUnchanged, watcher>>

\* read_to_string in the second task, then the call of bulk_rename_do
PeerReadBack ==
    /\ peer.pc = "read"
    /\ \E read_ok \in BOOLEAN :
         peer' = [peer EXCEPT !.pc = IF read_ok THEN "do" ELSE "exit"]
    /\ UNCHANGED <<mainUnchanged, hider, watcher>>

\* bulk_rename_do in the second task up to the answer to the prompt: it
\* returns, or goes on to WATCHER.acquire()
PeerGate ==
    /\ peer.pc = "do"
    /\ \E go \in BOOLEAN :
         peer' = [peer EXCEPT !.pc = IF go THEN "acquire" ELSE "exit"]
    /\ UNCHANGED <<mainUnchanged, hider, watcher>>

\* WATCHER.acquire().await in the second task
PeerAcquire ==
    /\ peer.pc = "acquire"
    /\ watcher > 0
    /\ watcher' = watcher - 1
    /\ peer' = [peer EXCEPT !.pc = "rename", !.watcher = TRUE]
    /\ UNCHANGED <<mainUnchanged, hider>>

\* the rename pass of the second task, drop(permit) and its report
PeerPass ==
    /\ peer.pc = "rename"
    /\ watcher' = watcher + 1
    /\ peer' = [peer EXCEPT !.pc = "exit", !.watcher = FALSE]
    /\ UNCHANGED <<mainUnchanged, hider>>

\* the end of the second task's block
PeerExit ==
    /\ peer.pc = "exit"
    /\ hider' = IF peer.hider THEN hider + 1 ELSE hider
    /\ peer' = [peer EXCEPT !.pc = "finished", !.hider = FALSE]
    /\ UNCHANGED <<mainUnchanged, watcher>>

InitTask ==
    /\ \E k \in 0..MaxBatch : old = OldPaths(k)
    /\ new = <<>>
    /\ pc = "spawned"
    /\ income_map = EmptyMap
    /\ todos = EmptyMap
    /\ sorted = <<>>
    /\ todo = <<>>
    /\ buf0 = 0
    /\ watcher = 1
    /\ permit = FALSE
    /\ idx = 0
    /\ failed = <<>>
    /\ succeeded = EmptyMap
    /\ fs = [p \in BatchPaths |-> IF p \in Range(old) THEN p ELSE NoFile]
    /\ published = <<>>
    /\ shown = <<>>
    /\ result = "none"
    /\ fs0 = fs
    /\ issued = <<>>
    /\ attempts = <<>>
    /\ sort_called = FALSE
    /\ acquired = 0
    /\ hider = HiderPermits
    /\ hpermit = FALSE
    /\ tmp = "absent"
    /\ cleanup = "none"
    /\ peer \in {NoPeer, [NoPeer EXCEPT !.pc = "spawned"]}

NextTask ==
    \/ CreateTmp
    \/ EditorExit
    \/ AcquireHider
    \/ ReadBack
    \/ Next
    \/ TaskExit
    \/ RemoveTmp
    \/ PeerEditor
    \/ PeerAcquireHider
    \/ PeerReadBack
    \/ PeerGate
    \/ PeerAcquire
    \/ PeerPass
    \/ PeerExit

SpecTask == InitTask /\ [][NextTask]_vars

(***************************************************************************)
(* The dependency graph of a batch: pair i depends on pair j when the new  *)
(* path of i is the old path of j.                                         *)
(***************************************************************************)
\* the pair whose old path is the new path of pair i (0 when there is none)
DependsOn(o, n, i) ==
    IF \E j \in 1..Len(o) : o[j] = n[i]
    THEN CHOOSE j \in 1..Len(o) : o[j] = n[i]
    ELSE 0

\* following the dependencies of pair i for at most `fuel` steps reaches pair j
RECURSIVE Reaches(_, _, _, _, _)
Reaches(o, n, i, j, fuel) ==
    /\ fuel > 0
    /\ DependsOn(o, n, i) # 0
    /\ \/ DependsOn(o, n, i) = j
       \/ Reaches(o, n, DependsOn(o, n, i), j, fuel - 1)

\* pair i lies on a cycle of the dependency graph (old = new is a cycle too)
OnCycle(o, n, i) == Reaches(o, n, i, i, Len(o))

Acyclic(o, n) == \A i \in 1..Len(o) : ~OnCycle(o, n, i)

\* the positions at which the pair <<a, b>> occurs in the list s
Positions(s, a, b) == {k \in 1..Len(s) : s[k] = <<a, b>>}

(***************************************************************************)
(* Properties of Manager::sort.                                            *)
(***************************************************************************)
\* C1: when the dependency graph of the input has no cycle, the returned
\* list has, for every pair (o, n), every other pair whose old path is n at
\* an earlier position.
C1_DependenciesFirst ==
    (pc = "sort_returned" /\ Acyclic(old, new)) =>
        \A a, b \in 1..Len(todo) :
            (a # b /\ todo[b][1] = todo[a][2]) => b < a

\* C4: the returned list is a permutation of the input pairs: it has their
\* number, every input pair occurs in it exactly once, and it holds nothing
\* else.
C4_Permutation ==
    pc = "sort_returned" =>
        /\ Len(todo) = Len(old)
        /\ \A i \in 1..Len(old) :
               Cardinality(Positions(todo, old[i], new[i])) = 1
        /\ \A k \in 1..Len(todo) :
               \E i \in 1..Len(old) : todo[k] = <<old[i], new[i]>>

\* a return through the cycle fallback, after pairs that lie on no cycle
\* were already placed
C4_Witness ==
    /\ pc = "sort_returned"
    /\ Len(old) = MaxLen
    /\ \E i \in 1..Len(old) : OnCycle(old, new, i)
    /\ \E i \in 1..Len(old) : ~OnCycle(old, new, i)
    /\ DOMAIN income_map # {}

\* C5: sort terminates and returns: at the start of every iteration
\* income_map and todos have the same keys, the unreachable branch is never
\* taken, every iteration returns or removes a pending pair (so the number
\* of pending pairs bounds the iterations left), and the iteration that
\* finds no pending pair returns.
C5_Terminates ==
    /\ [](pc = "sort_loop" => DOMAIN income_map = DOMAIN todos)
    /\ [](pc # "panic")
    /\ [][(pc = "sort_loop" /\ DOMAIN todos # {}) =>
            \/ pc' = "sort_returned"
            \/ Cardinality(DOMAIN todos') < Cardinality(DOMAIN todos)]_vars
    /\ [][(pc = "sort_loop" /\ DOMAIN todos = {}) => pc' = "sort_returned"]_vars

\* a call that went through several iterations on an input with a self-pair,
\* a duplicate destination and a cycle, and returned
C5_Witness ==
    /\ pc = "sort_returned"
    /\ Len(sorted) = MaxLen
    /\ \E i \in 1..Len(old) : old[i] = new[i]
    /\ \E i, j \in 1..Len(old) : i # j /\ new[i] = new[j]
    /\ \E i \in 1..Len(old) : old[i] # new[i] /\ OnCycle(old, new, i)

\* C6: the returned list does not depend on the iteration order of the hash
\* maps: whatever orders the run took, it returns what the run that iterates
\* every map in ascending order returns.
C6_Deterministic ==
    pc = "sort_returned" => todo = SortAscending(old, new)

\* a return after a round in which several pairs had no income, so that the
\* iteration order of income_map decided the order of the pushes
C6_Witness ==
    /\ pc = "sort_returned"
    /\ Len(todo) >= 3
    /\ Cardinality({i \in 1..Len(old) : new[i] \notin Range(old)}) >= 2
    /\ \E i \in 1..Len(old) : OnCycle(old, new, i)

(***************************************************************************)
(* Properties of Manager::bulk_rename_do.                                  *)
(***************************************************************************)
Collided == "Destination already exists"

\* C2: fs::rename is called only when the destination is absent or is the
\* same file as the source, and the files present on the filesystem are at
\* every moment those present when the pass began.
C2_NoOverwrite ==
    /\ \A k \in 1..Len(issued) :
           issued[k].dst = NoFile \/ issued[k].dst = issued[k].src
    /\ Files(fs) = Files(fs0)

\* a pass that renamed a file onto another name of the same file and
\* refused a rename onto an unrelated file
C2_Witness ==
    /\ \E k \in 1..Len(issued) :
           /\ issued[k].old # issued[k].new
           /\ issued[k].dst = issued[k].src
           /\ issued[k].ok
    /\ \E k \in 1..Len(failed) : failed[k][3] = Collided

\* C3: the pass processes the scheduled pairs one by one in scheduled
\* order, and when it has ended every scheduled pair is in exactly one of
\* succeeded (under its old path) and failed, so that the two together
\* count the scheduled pairs.
C3_EveryPairOnce ==
    /\ pc = "rename" => attempts = SubSeq(todo, 1, idx - 1)
    /\ (pc \in {"report", "done"} /\ acquired > 0) =>
           /\ attempts = todo
           /\ Cardinality(DOMAIN succeeded) + Len(failed) = Len(todo)
           /\ \A k \in 1..Len(todo) :
                  LET inFailed == {j \in 1..Len(failed) :
                                      /\ failed[j][1] = todo[k][1]
                                      /\ failed[j][2] = todo[k][2]}
                  IN IF todo[k][1] \in DOMAIN succeeded
                     THEN inFailed = {}
                     ELSE Cardinality(inFailed) = 1

\* a finished pass of a full batch in which pairs failed for different
\* reasons before a later pair succeeded
C3_Witness ==
    /\ pc = "done"
    /\ Len(todo) = MaxBatch
    /\ Len(failed) = 2
    /\ failed[1][3] # failed[2][3]
    /\ todo[MaxBatch][1] \in DOMAIN succeeded

\* C7: when the numbers of old and new paths differ, sort is never called,
\* the WATCHER permit is never acquired, no rename is issued and the
\* filesystem stays what it was on entry.
C7_MismatchAborts ==
    Len(old) # Len(new) =>
        /\ ~sort_called
        /\ acquired = 0
        /\ issued = <<>>
        /\ fs = fs0
        /\ pc \in {"start", "mismatch", "done"}

\* bulk_rename_do has returned from a batch with more names than files
C7_Witness ==
    /\ pc = "done"
    /\ result = "Ok"
    /\ Len(old) > 0
    /\ Len(old) < Len(new)

\* C8: a rename is issued only after the prompt was answered with a first
\* byte "y" or "Y"; after any other answer bulk_rename_do returns with the
\* filesystem unchanged, the permit never acquired and nothing published.
C8_ConfirmedFirst ==
    /\ (issued # <<>> \/ acquired > 0 \/ published # <<>> \/ fs # fs0) =>
           buf0 \in {ByteLowerY, ByteUpperY}
    /\ (pc = "done" /\ buf0 \notin {ByteLowerY, ByteUpperY}) =>
           /\ fs = fs0
           /\ acquired = 0
           /\ published = <<>>
           /\ issued = <<>>

\* the prompt was shown for a batch and answered with no input at all
C8_Witness ==
    /\ pc = "done"
    /\ result = "Ok"
    /\ todo # <<>>
    /\ buf0 = 0
    /\ \E k \in 1..Len(todo) : ~Collision(fs, todo[k][1], todo[k][2])

\* C9: a pair with old = new is never recorded in failed as a collision,
\* and processing it leaves the file at its path in place.
C9_NoOpPair ==
    /\ [](\A k \in 1..Len(failed) :
              failed[k][1] = failed[k][2] => failed[k][3] # Collided)
    /\ [][(pc = "rename" /\ idx <= Len(todo) /\ todo[idx][1] = todo[idx][2]) =>
              fs'[todo[idx][1]] = fs[todo[idx][1]]]_vars

\* a pair with old = new succeeded in a batch in which another pair, aimed
\* at the same path, was refused
C9_Witness ==
    \E k \in 1..Len(attempts) :
        /\ attempts[k][1] = attempts[k][2]
        /\ attempts[k][1] \in DOMAIN succeeded
        /\ \E j \in 1..Len(failed) :
               /\ failed[j][2] = attempts[k][1]
               /\ failed[j][3] = Collided

\* C10: every fs::rename is called while the task holds the WATCHER permit,
\* and the permit is back in the semaphore once the pass is over: before the
\* failure report and whenever bulk_rename_do has returned.
C10_RenameUnderPermit ==
    /\ \A k \in 1..Len(issued) : issued[k].held
    /\ pc = "rename" => (permit /\ watcher = 0)
    /\ pc \in {"report", "done"} => (~permit /\ watcher = 1)

\* bulk_rename_do returned after renames were issued and the failure report
\* was shown
C10_Witness ==
    /\ pc = "done"
    /\ acquired = 1
    /\ issued # <<>>
    /\ shown # <<>>

(***************************************************************************)
(* Further properties of Manager::sort.                                    *)
(***************************************************************************)
\* the input pairs that lie on a cycle, in user order
CyclePairs(o, n) ==
    LET onCycle == SelectSeq([i \in 1..Len(o) |-> i],
                             LAMBDA i : OnCycle(o, n, i))
    IN [k \in 1..Len(onCycle) |-> <<o[onCycle[k]], n[onCycle[k]]>>]

\* C17: when the dependency graph has a cycle, the pairs that lie on a
\* cycle are the tail of the returned list, after every pair on no cycle,
\* in their relative user order.
C17_CyclesLast ==
    (pc = "sort_returned" /\ CyclePairs(old, new) # <<>>) =>
        LET c == Len(CyclePairs(old, new))
        IN /\ Len(todo) >= c
           /\ SubSeq(todo, Len(todo) - c + 1, Len(todo)) = CyclePairs(old, new)

\* C18: when no new path is an old path, the returned list is the input in
\* user order.
C18_NoDependencyKeepsOrder ==
    (pc = "sort_returned" /\ \A i, j \in 1..Len(old) : new[i] # old[j]) =>
        todo = [i \in 1..Len(old) |-> <<old[i], new[i]>>]

\* a list of three pairs without any dependency was returned
C18_Witness ==
    /\ pc = "sort_returned"
    /\ Len(old) = 3
    /\ Len(todo) = 3
    /\ \A i, j \in 1..Len(old) : new[i] # old[j]
    /\ new[1] # new[2]

(***************************************************************************)
(* Properties of the task spawned by Manager::bulk_rename.                 *)
(***************************************************************************)
\* the task is inside bulk_rename_do (called at line 56, not yet returned)
MainInDo ==
    pc \in {"start", "mismatch", "sort_loop", "sort_returned", "confirm",
            "acquire", "rename", "report"}

\* the second task is inside bulk_rename_do
PeerInDo == peer.pc \in {"do", "acquire", "rename"}

\* C11 as stated: the task holds the HIDER permit while the editor runs and
\* while the confirmation prompt is displayed and awaited.
C11_HiderDuringEditorAndPrompt ==
    pc \in {"editor", "sort_returned", "confirm"} => hpermit

\* C11 as amended: the task holds the HIDER permit from the acquire that
\* follows the editor's exit until its block ends, so during the read-back
\* and the whole of bulk_rename_do, the confirmation prompt included; it
\* holds no permit before that, while the editor runs in particular.
C11_HiderAfterEditor ==
    /\ (pc = "read" \/ pc = "done" \/ MainInDo) => (hpermit /\ hider = 0)
    /\ pc \in {"spawned", "editor", "hider", "finished"} => ~hpermit

\* the prompt is awaited while the second task waits for the HIDER permit
C11_Witness ==
    /\ pc = "confirm"
    /\ hpermit
    /\ peer.pc = "hider"

\* C12: whenever the task has finished after creating the handoff file,
\* the removal of the file has been spawned (and so is eventually run).
C12_TmpRemovalPerformed ==
    (pc = "finished" /\ tmp \in {"created", "removed"}) =>
        cleanup \in {"spawned", "ran"}

\* C13: the two tasks are never inside bulk_rename_do together, and their
\* rename passes never interleave; each holds the one HIDER permit while it
\* is inside.
C13_NoOverlap ==
    /\ ~(MainInDo /\ PeerInDo)
    /\ ~(pc = "rename" /\ peer.pc = "rename")
    /\ MainInDo => hpermit
    /\ PeerInDo => peer.hider
    /\ hider + (IF hpermit THEN 1 ELSE 0) + (IF peer.hider THEN 1 ELSE 0)
           = HiderPermits

\* the first task is in its rename pass, the pass of a batch with a pair to
\* rename, while the second one waits for the HIDER permit
C13_Witness ==
    /\ pc = "rename"
    /\ idx <= Len(todo)
    /\ peer.pc = "hider"

(***************************************************************************)
(* The outcome of the rename pass: the failure report, the notification    *)
(* and the filesystem.                                                     *)
(***************************************************************************)
InfoFailed == "Failed to retrieve file info"

\* the pass is over: bulk_rename_do went through the loop and left it
PassOver == pc \in {"report", "done"} /\ acquired > 0

\* the pairs of the entries of failed, in the order of the list
FailedPairs == [k \in 1..Len(failed) |-> <<failed[k][1], failed[k][2]>>]

\* the pairs whose rename and metadata read both succeeded, in the order in
\* which the pass processed them
CompletionOrder == SelectSeq(attempts, LAMBDA p : p[1] \in DOMAIN succeeded)

\* the pairs whose fs::rename returned Ok and whose File::from did not fail
BothSucceeded ==
    {<<issued[j].old, issued[j].new>> : j \in {i \in 1..Len(issued) : issued[i].ok}}
        \ {FailedPairs[k] : k \in {i \in 1..Len(failed) : failed[i][3] = InfoFailed}}

\* C14: output_failed is called exactly when the pass ends with a failed
\* pair, and only then: after the last pair was processed and the permit
\* dropped, with no rename after it; what it writes is the list failed,
\* whose pairs are in the order in which the pass processed them.
C14_ReportAfterPass ==
    /\ [](pc = "report" =>
            /\ failed # <<>>
            /\ idx > Len(todo)
            /\ attempts = todo
            /\ ~permit)
    /\ [](shown # <<>> =>
            /\ shown = <<failed>>
            /\ failed # <<>>
            /\ attempts = todo
            /\ pc = "done")
    /\ []((PassOver /\ pc = "done" /\ failed # <<>> /\ result = "Ok") =>
            shown = <<failed>>)
    /\ [](\A a, b \in 1..Len(failed) :
            a < b => \E i, j \in 1..Len(attempts) :
                        /\ i < j
                        /\ attempts[i] = FailedPairs[a]
                        /\ attempts[j] = FailedPairs[b])
    /\ [][(pc = "rename" /\ pc' # "rename") =>
            (pc' = "report" <=> failed # <<>>)]_vars
    /\ [][(pc' = "report" /\ pc # "report") => pc = "rename"]_vars
    /\ [][(pc = "report" \/ pc = "done") =>
            (failed' = failed /\ fs' = fs /\ issued' = issued)]_vars

\* the report of a pass in which the pair given second failed before the
\* pair given first, and another pair succeeded
C14_Witness ==
    /\ pc = "done"
    /\ shown = <<failed>>
    /\ Len(failed) = 2
    /\ failed[1][1] > failed[2][1]
    /\ DOMAIN succeeded # {}

\* C15 as stated: the notification lists the succeeded pairs in the order
\* in which their renames completed.
C15_PublishedInCompletionOrder ==
    published # <<>> => published[1] = CompletionOrder

\* C15 as amended: the notification is sent once, when a pair succeeded,
\* and lists every succeeded pair (old path, new path) exactly once and
\* nothing else; its order is that of the hash map, not of completion.
C15_PublishedIsSucceededMap ==
    /\ Len(published) <= 1
    /\ published # <<>> =>
           /\ PassOver
           /\ Len(published[1]) = Len(CompletionOrder)
           /\ \A k \in 1..Len(CompletionOrder) :
                  Cardinality({j \in 1..Len(published[1]) :
                                  published[1][j] = CompletionOrder[k]}) = 1
           /\ \A j \in 1..Len(published[1]) :
                  /\ published[1][j][1] \in DOMAIN succeeded
                  /\ published[1][j][2] = succeeded[published[1][j][1]].url

\* a notification whose order is not the order of completion
C15_Witness ==
    /\ published # <<>>
    /\ Len(published[1]) = MaxBatch
    /\ published[1] # CompletionOrder

\* C16: a pair whose rename succeeded and whose metadata read failed is in
\* failed with that reason and not in succeeded, the step that records it
\* leaves the file at the new path, and the notification is sent exactly
\* when a pair succeeded in both and holds exactly those pairs.
C16_InfoFailureStands ==
    /\ [](\A k \in 1..Len(failed) :
            failed[k][3] = InfoFailed =>
                /\ failed[k][1] \notin DOMAIN succeeded
                /\ \E j \in 1..Len(issued) :
                       /\ issued[j].old = failed[k][1]
                       /\ issued[j].new = failed[k][2]
                       /\ issued[j].ok)
    /\ [][(Len(failed') > Len(failed)
            /\ failed'[Len(failed')][3] = InfoFailed) =>
               LET o == failed'[Len(failed')][1]
                   n == failed'[Len(failed')][2]
               IN /\ fs[o] # NoFile
                  /\ fs'[n] = fs[o]
                  /\ fs[n] # fs[o] => fs'[o] = NoFile]_vars
    /\ [](PassOver =>
            /\ published # <<>> <=> BothSucceeded # {}
            /\ published # <<>> =>
                   {published[1][j] : j \in 1..Len(published[1])} = BothSucceeded)
    /\ [](~PassOver => published = <<>>)

\* a pass in which two pairs succeeded and a third was renamed but its
\* metadata could not be read
C16_Witness ==
    /\ pc = "done"
    /\ Cardinality(DOMAIN succeeded) = 2
    /\ \E k \in 1..Len(failed) :
           /\ failed[k][3] = InfoFailed
           /\ fs[failed[k][2]] = fs0[failed[k][1]]
           /\ failed[k][1] # failed[k][2]

\* no rename of an existing source and no metadata read failed
NoIoFailure ==
    /\ \A k \in 1..Len(issued) : issued[k].ok \/ issued[k].src = NoFile
    /\ \A k \in 1..Len(failed) : failed[k][3] # InfoFailed

\* C19: when the new paths are pairwise distinct, no pair lies on a cycle
\* of two or more pairs, every new path that is no old path was absent on
\* entry and no call failed for an I/O reason, the pass ends with failed
\* empty, every file at its new path and every other path as it was.
C19_AcyclicBatchSucceeds ==
    (/\ PassOver
     /\ \A i, j \in 1..Len(old) : i # j => new[i] # new[j]
     /\ \A i \in 1..Len(old) : OnCycle(old, new, i) => old[i] = new[i]
     /\ \A i \in 1..Len(old) : new[i] \notin Range(old) => fs0[new[i]] = NoFile
     /\ NoIoFailure) =>
        /\ failed = <<>>
        /\ pc = "done"
        /\ \A i \in 1..Len(old) : fs[new[i]] = fs0[old[i]]
        /\ \A p \in Range(old) \ Range(new) : fs[p] = NoFile
        /\ \A p \in BatchPaths \ (Range(old) \cup Range(new)) : fs[p] = fs0[p]

\* a chain of three pairs, each onto the old path of the next, was renamed
C19_Witness ==
    /\ pc = "done"
    /\ failed = <<>>
    /\ Len(old) = 3
    /\ Len(new) = 3
    /\ new[1] = old[2]
    /\ new[2] = old[3]
    /\ new[3] \notin Range(old)
    /\ fs[new[3]] = fs0[old[3]]
    /\ fs[old[1]] = NoFile

\* C20: when the pass is over every pair was processed, and every pair on
\* a cycle of two or more pairs is in failed as a collision while its file
\* is where it was on entry and nowhere else.
C20_CyclePairsAllCollide ==
    PassOver =>
        /\ attempts = todo
        /\ Len(todo) = Len(old)
        /\ \A i \in 1..Len(old) :
               (OnCycle(old, new, i) /\ old[i] # new[i]) =>
                   /\ \E k \in 1..Len(failed) :
                          failed[k] = <<old[i], new[i], Collided>>
                   /\ fs[old[i]] = fs0[old[i]]
                   /\ \A p \in BatchPaths :
                          fs[p] = fs0[old[i]] => fs0[p] = fs0[old[i]]

\* a batch of a two-pair cycle and a third pair that was renamed
C20_Witness ==
    /\ pc = "done"
    /\ Len(old) = 3
    /\ Len(new) = 3
    /\ new[1] = old[2]
    /\ new[2] = old[1]
    /\ Len(failed) = 2
    /\ old[3] \in DOMAIN succeeded
    /\ fs[old[3]] = NoFile

====
